---- MODULE Spec2Model ----
(***************************************************************************)
(* Model of src/pdf_table_extractor.py: main() downloads a PDF with        *)
(* download_pdf(), then extract_tables_to_single_csv() reads the tables    *)
(* with camelot, tags and concatenates them in a pandas DataFrame and      *)
(* writes one CSV file.  The file system, the HTTP server, camelot and     *)
(* pandas' to_csv are the environment: each of their calls either          *)
(* succeeds or raises, chosen nondeterministically.                        *)
(***************************************************************************)
EXTENDS Integers, Sequences, FiniteSets

\* ---------------------------------------------------------------- bounds
MaxRuns == 2
MaxChunks == 2
MaxTables == 2
MaxRows == 2
MaxCols == 2
MaxPage == 2

VARIABLES
    run,              \* number of main() invocations started so far
    pc,               \* position of the running invocation in the code
    urlIsPdf,         \* url.lower().endswith('.pdf')
    saveDirExists,    \* os.path.exists(save_dir)
    pdfFile,          \* the file at save_path
    outDirExists,     \* os.path.exists(output_dir)
    csvFile,          \* the file at output_file
    response,         \* the requests.Response of this run
    chunkIdx,         \* chunks of response.iter_content consumed so far
    warned,           \* line 59 printed the content-type warning
    dlMsg,            \* which except clause of download_pdf printed
    downloaded_pdf,   \* main's local: the value download_pdf returned
    tables,           \* the value camelot.read_pdf returned
    i,                \* number of loop iterations of lines 114-129 completed
    all_tables_df,    \* the combined DataFrame
    csv_file,         \* main's local: the value extract_tables_to_single_csv returned
    report,           \* what main printed last
    invoked,          \* history: the stages invoked in this run, in order
    fault,            \* history: the environment call that raised in this run
    pdfAtStart,       \* history: pdfFile when this run started
    csvAtStart        \* history: csvFile when this run started

vars == <<run, pc, urlIsPdf, saveDirExists, pdfFile, outDirExists, csvFile,
          response, chunkIdx, warned, dlMsg, downloaded_pdf, tables, i,
          all_tables_df, csv_file, report, invoked, fault, pdfAtStart,
          csvAtStart>>

fsVars == <<saveDirExists, pdfFile, outDirExists, csvFile>>
dlVars == <<response, chunkIdx, warned, dlMsg>>
exVars == <<tables, i, all_tables_df>>
histVars == <<pdfAtStart, csvAtStart>>

\* ------------------------------------------------------------ DataFrames
\* A DataFrame is [cols: sequence of column labels, rows: sequence of rows];
\* a row is a function from the column labels to cell values.  A cell value
\* is a tuple: <<t, k, j>> stands for the text camelot found in row k,
\* column j of table t, <<v>> is the integer v, and <<>> is NaN.
ColNames == <<"0", "1", "2", "3", "4", "5">>
ColName(j) == ColNames[j + 1]
table_id == "table_id"
table_page == "table_page"
NaN == <<>>

ColSet(cols) == {cols[n] : n \in DOMAIN cols}

NoDataFrame == [cols |-> <<>>, rows |-> <<>>]

\* DataFrame.empty: any axis of length 0
IsEmpty(df) == Len(df.cols) = 0 \/ Len(df.rows) = 0

\* table.df of the table at 0-based position t: a RangeIndex of columns
TableDF(t, tab) ==
    LET cols == [j \in 1..tab.ncols |-> ColName(j - 1)]
    IN [cols |-> cols,
        rows |-> [k \in 1..tab.nrows |->
                    [c \in ColSet(cols) |->
                        LET j == CHOOSE n \in DOMAIN cols : cols[n] = c
                        IN <<t, k, j - 1>>]]]

\* df[name] = v: overwrite the column, or append it as the last one
SetColumn(df, name, v) ==
    LET cols == IF name \in ColSet(df.cols) THEN df.cols ELSE Append(df.cols, name)
    IN [cols |-> cols,
        rows |-> [k \in DOMAIN df.rows |->
                    [c \in ColSet(cols) |-> IF c = name THEN v ELSE df.rows[k][c]]]]

Reindex(rows, cols) ==
    [k \in DOMAIN rows |->
        [c \in ColSet(cols) |-> IF c \in DOMAIN rows[k] THEN rows[k][c] ELSE NaN]]

\* pd.concat([a, b], ignore_index=True): columns in order of first appearance
Concat(a, b) ==
    LET cols == a.cols \o SelectSeq(b.cols, LAMBDA c : c \notin ColSet(a.cols))
    IN [cols |-> cols,
        rows |-> Reindex(a.rows, cols) \o Reindex(b.rows, cols)]

\* mutation of line 119: table_id = i
TaggedOffByOne(t, tab) ==
    SetColumn(SetColumn(TableDF(t, tab), table_id, <<t>>), table_page, <<tab.page>>)

\* lines 116-120: df = table.df with the two identifier columns set
Tagged(t, tab) ==
    SetColumn(SetColumn(TableDF(t, tab), table_id, <<t + 1>>), table_page, <<tab.page>>)

\* lines 126-129: append df to the combined DataFrame
AppendTable(all, df) == IF IsEmpty(all) THEN df ELSE Concat(all, df)

\* ---------------------------------------------------------------- inputs
\* A detected table: the shape of table.df and table.page.  pandas allows a
\* DataFrame with columns and no rows, so nrows = 0 is an input.
Tables == [ncols : 1..MaxCols, nrows : 0..MaxRows, page : 1..MaxPage]

SeqsUpTo(S, n) == UNION {[1..m -> S] : m \in 0..n}

\* what camelot.read_pdf can return: tables in page order
TableSeqs ==
    {s \in SeqsUpTo(Tables, MaxTables) :
        \A m \in 1..(Len(s) - 1) : s[m].page <= s[m + 1].page}

\* the outputs of camelot.read_pdf tried in whole pipeline runs
PipelineTableSeqs ==
    { <<>>,
      <<[ncols |-> 2, nrows |-> 2, page |-> 1]>>,
      <<[ncols |-> 2, nrows |-> 0, page |-> 1], [ncols |-> 1, nrows |-> 1, page |-> 2]>> }

ContentTypes == {"application/pdf", "text/html", ""}

\* a response body: chunks as iter_content yields them; a chunk is
\* <<run, position, length>>, and iter_content may yield empty chunks
Bodies(r) ==
    UNION {{[n \in 1..m |-> <<r, n, len[n]>>] : len \in [1..m -> {0, 1}]} : m \in 0..MaxChunks}

NoResponse == [status |-> "none", ctype |-> "", body |-> <<>>]
NoFile == [exists |-> FALSE, data |-> <<>>]
NoCsv == [status |-> "absent", cols |-> <<>>, rows |-> <<>>]

\* line 58: 'application/pdf' not in content_type.lower()
IsPdfType(ctype) == ctype = "application/pdf"

Stages == <<"Fetcher", "Detector", "Aggregator", "Writer">>

\* ------------------------------------------------------------------ Init
Init ==
    /\ run = 0
    /\ pc = "idle"
    /\ urlIsPdf = TRUE
    /\ saveDirExists \in BOOLEAN
    /\ outDirExists \in BOOLEAN
    /\ pdfFile = NoFile
    /\ csvFile = NoCsv
    /\ response = NoResponse
    /\ chunkIdx = 0
    /\ warned = FALSE
    /\ dlMsg = "none"
    /\ downloaded_pdf = "unset"
    /\ tables = <<>>
    /\ i = 0
    /\ all_tables_df = NoDataFrame
    /\ csv_file = "unset"
    /\ report = "none"
    /\ invoked = <<>>
    /\ fault = "none"
    /\ pdfAtStart = NoFile
    /\ csvAtStart = NoCsv

\* ------------------------------------------------------------------ main
\* line 148: main calls download_pdf(pdf_url, pdf_path)
main_start ==
    /\ pc \in {"idle", "done", "uncaught"}
    /\ run < MaxRuns
    /\ run' = run + 1
    /\ pc' = "dl_makedirs"
    /\ urlIsPdf' \in BOOLEAN
    /\ response' = NoResponse
    /\ chunkIdx' = 0
    /\ warned' = FALSE
    /\ dlMsg' = "none"
    /\ downloaded_pdf' = "unset"
    /\ tables' = <<>>
    /\ i' = 0
    /\ all_tables_df' = NoDataFrame
    /\ csv_file' = "unset"
    /\ report' = "none"
    /\ invoked' = <<"Fetcher">>
    /\ fault' = "none"
    /\ pdfAtStart' = pdfFile
    /\ csvAtStart' = csvFile
    /\ UNCHANGED fsVars

\* ---------------------------------------------------------- download_pdf
\* mutation of lines 71-79: the handler removes the file before returning
DownloadFailedCleaningUp(msg, what) ==
    /\ dlMsg' = msg
    /\ fault' = what
    /\ downloaded_pdf' = "None"
    /\ pdfFile' = NoFile
    /\ pc' = "main_check"

\* an except clause of lines 71-79: print and return None; the file at
\* save_path is left as it is
DownloadFailed(msg, what) ==
    /\ dlMsg' = msg
    /\ fault' = what
    /\ downloaded_pdf' = "None"
    /\ pdfFile' = pdfFile
    /\ pc' = "main_check"

\* lines 48-50, the directory exists or os.makedirs succeeds
download_pdf_makedirs ==
    /\ pc = "dl_makedirs"
    /\ saveDirExists' = TRUE
    /\ pc' = "dl_get"
    /\ UNCHANGED <<run, urlIsPdf, pdfFile, outDirExists, csvFile, dlVars,
                   downloaded_pdf, exVars, csv_file, report, invoked, fault, histVars>>

\* lines 48-50 and 74-76, os.makedirs raises OSError
download_pdf_makedirs_fails ==
    /\ pc = "dl_makedirs"
    /\ ~saveDirExists
    /\ DownloadFailed("io", "makedirs")
    /\ UNCHANGED <<run, urlIsPdf, saveDirExists, outDirExists, csvFile, response,
                   chunkIdx, warned, exVars, csv_file, report, invoked, histVars>>

\* the variables no failing step of download_pdf changes
dlFailFrame == <<run, urlIsPdf, saveDirExists, outDirExists, csvFile, chunkIdx,
                 warned, exVars, csv_file, report, invoked, histVars>>

\* mutation of line 54: no raise_for_status, any status goes on
RaiseForStatusSkipped ==
    /\ pc = "dl_get"
    /\ \E st \in {"ok", "bad"}, ct \in ContentTypes, b \in Bodies(run) :
          response' = [status |-> st, ctype |-> ct, body |-> b]
    /\ pc' = "dl_check_type"
    /\ UNCHANGED <<run, urlIsPdf, fsVars, chunkIdx, warned, dlMsg, downloaded_pdf,
                   exVars, csv_file, report, invoked, fault, histVars>>

\* line 53, requests.get returns; line 54, raise_for_status passes
download_pdf_get ==
    /\ pc = "dl_get"
    /\ \E ct \in ContentTypes, b \in Bodies(run) :
          response' = [status |-> "ok", ctype |-> ct, body |-> b]
    /\ pc' = "dl_check_type"
    /\ UNCHANGED <<run, urlIsPdf, fsVars, chunkIdx, warned, dlMsg, downloaded_pdf,
                   exVars, csv_file, report, invoked, fault, histVars>>

\* lines 53 and 71-73, requests.get raises (timeout, connection error)
download_pdf_get_raises ==
    /\ pc = "dl_get"
    /\ DownloadFailed("request", "get")
    /\ UNCHANGED <<response, dlFailFrame>>

\* lines 54 and 71-73, raise_for_status raises HTTPError on a 4xx or 5xx status
download_pdf_bad_status ==
    /\ pc = "dl_get"
    /\ \E ct \in ContentTypes :
          response' = [status |-> "bad", ctype |-> ct, body |-> <<>>]
    /\ DownloadFailed("request", "status")
    /\ UNCHANGED dlFailFrame

\* mutation of line 58: the URL's suffix is not consulted
WarnsOnContentTypeAlone == ~IsPdfType(response.ctype)

\* line 58: the condition of the warning
ShouldWarn == ~IsPdfType(response.ctype) /\ ~urlIsPdf

download_pdf_check_type ==
    /\ pc = "dl_check_type"
    /\ warned' = ShouldWarn
    /\ pc' = "dl_open"
    /\ UNCHANGED <<run, urlIsPdf, fsVars, response, chunkIdx, dlMsg, downloaded_pdf,
                   exVars, csv_file, report, invoked, fault, histVars>>

\* line 62, open(save_path, 'wb') creates or truncates the file
download_pdf_open ==
    /\ pc = "dl_open"
    /\ pdfFile' = [exists |-> TRUE, data |-> <<>>]
    /\ pc' = "dl_stream"
    /\ UNCHANGED <<run, urlIsPdf, saveDirExists, outDirExists, csvFile, dlVars,
                   downloaded_pdf, exVars, csv_file, report, invoked, fault, histVars>>

\* lines 62 and 74-76, open raises IOError
download_pdf_open_fails ==
    /\ pc = "dl_open"
    /\ DownloadFailed("io", "open")
    /\ UNCHANGED <<response, dlFailFrame>>

\* lines 63-65, one iteration: an empty chunk is skipped
WriteChunk(data, chunk) == IF chunk[3] > 0 THEN Append(data, chunk) ELSE data

download_pdf_chunk ==
    /\ pc = "dl_stream"
    /\ chunkIdx < Len(response.body)
    /\ pdfFile' = [pdfFile EXCEPT !.data = WriteChunk(@, response.body[chunkIdx + 1])]
    /\ chunkIdx' = chunkIdx + 1
    /\ UNCHANGED <<run, pc, urlIsPdf, saveDirExists, outDirExists, csvFile, response,
                   warned, dlMsg, downloaded_pdf, exVars, csv_file, report, invoked,
                   fault, histVars>>

\* lines 63 and 71-73, iter_content raises (connection lost, read timeout)
download_pdf_stream_raises ==
    /\ pc = "dl_stream"
    /\ chunkIdx < Len(response.body)
    /\ DownloadFailed("request", "stream")
    /\ UNCHANGED <<response, dlFailFrame>>

\* lines 65 and 74-76, file.write raises IOError (disk full)
download_pdf_write_fails ==
    /\ pc = "dl_stream"
    /\ chunkIdx < Len(response.body)
    /\ response.body[chunkIdx + 1][3] > 0
    /\ DownloadFailed("io", "write")
    /\ UNCHANGED <<response, dlFailFrame>>

\* lines 67-69, the loop is over: return save_path
download_pdf_return ==
    /\ pc = "dl_stream"
    /\ chunkIdx = Len(response.body)
    /\ downloaded_pdf' = "save_path"
    /\ pc' = "main_check"
    /\ UNCHANGED <<run, urlIsPdf, fsVars, dlVars, exVars, csv_file, report, invoked,
                   fault, histVars>>

\* ------------------------------------------------------------------ main
\* mutation of lines 150-152: main goes on whatever download_pdf returned
MainIgnoresFailedDownload ==
    /\ pc = "main_check"
    /\ pc' = "ex_makedirs"
    /\ UNCHANGED <<run, urlIsPdf, fsVars, dlVars, downloaded_pdf, exVars, csv_file, report,
                   invoked, fault, histVars>>

\* lines 150-152: a falsy result ends main; line 155 calls the extractor
main_check_download ==
    /\ pc = "main_check"
    /\ IF downloaded_pdf = "None"
         THEN pc' = "done" /\ report' = "download_failed"
         ELSE pc' = "ex_makedirs" /\ report' = report
    /\ UNCHANGED <<run, urlIsPdf, fsVars, dlVars, downloaded_pdf, exVars, csv_file,
                   invoked, fault, histVars>>

\* lines 158-162: the summary main prints
main_summary ==
    /\ pc = "main_summary"
    /\ report' = IF csv_file = "output_file" THEN "success" ELSE "error"
    /\ pc' = "done"
    /\ UNCHANGED <<run, urlIsPdf, fsVars, dlVars, downloaded_pdf, exVars, csv_file,
                   invoked, fault, histVars>>

\* ------------------------------------------ extract_tables_to_single_csv
exFrame == <<run, urlIsPdf, saveDirExists, pdfFile, dlVars, downloaded_pdf, report,
             histVars>>

\* lines 95-96, the directory exists or os.makedirs succeeds
extract_makedirs ==
    /\ pc = "ex_makedirs"
    /\ outDirExists' = TRUE
    /\ pc' = "ex_read_pdf"
    /\ UNCHANGED <<exFrame, csvFile, exVars, csv_file, invoked, fault>>

\* lines 95-96, os.makedirs raises: the call is outside the try of line 105,
\* and main has no handler, so the exception leaves main
extract_makedirs_fails ==
    /\ pc = "ex_makedirs"
    /\ ~outDirExists
    /\ fault' = "output_dir"
    /\ pc' = "uncaught"
    /\ UNCHANGED <<exFrame, outDirExists, csvFile, exVars, csv_file, invoked>>

\* line 108, camelot.read_pdf returns; line 112 starts the combined DataFrame
extract_read_pdf ==
    /\ pc = "ex_read_pdf"
    /\ tables' \in PipelineTableSeqs
    /\ all_tables_df' = NoDataFrame
    /\ i' = 0
    /\ invoked' = invoked \o <<"Detector", "Aggregator">>
    /\ pc' = "ex_loop"
    /\ UNCHANGED <<exFrame, outDirExists, csvFile, csv_file, fault>>

\* mutation of lines 105-139: the try covers line 108 alone and the
\* function goes on with no tables
ReadPdfErrorSwallowed ==
    /\ pc = "ex_read_pdf"
    /\ fault' = "detector"
    /\ tables' = <<>>
    /\ invoked' = invoked \o <<"Detector", "Aggregator">>
    /\ pc' = "ex_loop"
    /\ UNCHANGED <<exFrame, outDirExists, csvFile, i, all_tables_df, csv_file>>

\* lines 108 and 137-139, camelot.read_pdf raises: print and return None
extract_read_pdf_raises ==
    /\ pc = "ex_read_pdf"
    /\ fault' = "detector"
    /\ invoked' = Append(invoked, "Detector")
    /\ csv_file' = "None"
    /\ pc' = "main_summary"
    /\ UNCHANGED <<exFrame, outDirExists, csvFile, exVars>>

\* lines 114-129, one iteration of the loop
extract_loop_step ==
    /\ pc = "ex_loop"
    /\ i < Len(tables)
    /\ all_tables_df' = AppendTable(all_tables_df, Tagged(i, tables[i + 1]))
    /\ i' = i + 1
    /\ UNCHANGED <<exFrame, pc, outDirExists, csvFile, tables, csv_file, invoked, fault>>

\* lines 114-129 and 137-139, an iteration raises (MemoryError in pd.concat):
\* print and return None
extract_loop_raises ==
    /\ pc = "ex_loop"
    /\ i < Len(tables)
    /\ fault' = "aggregate"
    /\ csv_file' = "None"
    /\ pc' = "main_summary"
    /\ UNCHANGED <<exFrame, outDirExists, csvFile, exVars, invoked>>

\* what to_csv(output_file, index=False) leaves in the file when it succeeds
Csv(df) == [status |-> "complete", cols |-> df.cols, rows |-> df.rows]

\* lines 132-135, to_csv succeeds: return output_file
extract_to_csv ==
    /\ pc = "ex_loop"
    /\ i = Len(tables)
    /\ csvFile' = Csv(all_tables_df)
    /\ invoked' = Append(invoked, "Writer")
    /\ csv_file' = "output_file"
    /\ pc' = "main_summary"
    /\ UNCHANGED <<exFrame, outDirExists, exVars, fault>>

\* lines 132 and 137-139, to_csv cannot open the file: print and return None
extract_to_csv_open_fails ==
    /\ pc = "ex_loop"
    /\ i = Len(tables)
    /\ fault' = "csv_open"
    /\ invoked' = Append(invoked, "Writer")
    /\ csv_file' = "None"
    /\ pc' = "main_summary"
    /\ UNCHANGED <<exFrame, outDirExists, csvFile, exVars>>

\* lines 132 and 137-139, to_csv opened (truncated) the file and a write
\* raises after n rows: print and return None
extract_to_csv_write_fails ==
    /\ pc = "ex_loop"
    /\ i = Len(tables)
    /\ \E n \in 0..Len(all_tables_df.rows) :
         csvFile' = [status |-> "partial", cols |-> all_tables_df.cols,
                     rows |-> SubSeq(all_tables_df.rows, 1, n)]
    /\ fault' = "csv_write"
    /\ invoked' = Append(invoked, "Writer")
    /\ csv_file' = "None"
    /\ pc' = "main_summary"
    /\ UNCHANGED <<exFrame, outDirExists, exVars>>

\* The pipeline state a run has ended in: lines 150-152 and 158-162 report
\* it; an exception that leaves main ends the run with a traceback instead.
Outcome ==
    IF pc = "done" THEN (IF report = "success" THEN "WRITTEN" ELSE "FAILED")
    ELSE IF pc = "uncaught" THEN "UNCAUGHT"
    ELSE "RUNNING"

\* the bytes lines 63-65 write for the first n chunks of a body
Written(body, n) == SelectSeq(SubSeq(body, 1, n), LAMBDA chunk : chunk[3] > 0)

\* ---------------------------------------------------------- specification
Next ==
    \/ main_start
    \/ download_pdf_makedirs
    \/ download_pdf_makedirs_fails
    \/ download_pdf_get
    \/ download_pdf_get_raises
    \/ download_pdf_bad_status
    \/ download_pdf_check_type
    \/ download_pdf_open
    \/ download_pdf_open_fails
    \/ download_pdf_chunk
    \/ download_pdf_stream_raises
    \/ download_pdf_write_fails
    \/ download_pdf_return
    \/ main_check_download
    \/ main_summary
    \/ extract_makedirs
    \/ extract_makedirs_fails
    \/ extract_read_pdf
    \/ extract_read_pdf_raises
    \/ extract_loop_step
    \/ extract_loop_raises
    \/ extract_to_csv
    \/ extract_to_csv_open_fails
    \/ extract_to_csv_write_fails

Spec == Init /\ [][Next]_vars

\* The aggregation loop alone, on every output camelot.read_pdf can return
\* within the bounds: the state is the one line 112 leaves.
AggInit ==
    /\ run = 1
    /\ pc = "ex_loop"
    /\ urlIsPdf = TRUE
    /\ saveDirExists = TRUE
    /\ outDirExists = TRUE
    /\ pdfFile = [exists |-> TRUE, data |-> <<>>]
    /\ csvFile = NoCsv
    /\ response = [status |-> "ok", ctype |-> "application/pdf", body |-> <<>>]
    /\ chunkIdx = 0
    /\ warned = FALSE
    /\ dlMsg = "none"
    /\ downloaded_pdf = "save_path"
    /\ tables \in TableSeqs
    /\ i = 0
    /\ all_tables_df = NoDataFrame
    /\ csv_file = "unset"
    /\ report = "none"
    /\ invoked = <<"Fetcher", "Detector", "Aggregator">>
    /\ fault = "none"
    /\ pdfAtStart = NoFile
    /\ csvAtStart = NoCsv

AggNext == extract_loop_step

AggSpec == AggInit /\ [][AggNext]_vars

\* ------------------------------------------------------------ properties
Terminal == pc \in {"done", "uncaught"}
InvokedSet == ColSet(invoked)
DownloadFaults == {"makedirs", "get", "status", "open", "stream", "write"}

RECURSIVE SumRows(_, _)
\* the number of rows of the first n tables of s
SumRows(s, n) == IF n = 0 THEN 0 ELSE SumRows(s, n - 1) + s[n].nrows

\* the table_id values of the rows of a DataFrame
TableIds(df) == {df.rows[n][table_id][1] : n \in DOMAIN df.rows}

\* the rows of df are those of the first n tables, in order, each tagged
\* with its table's 1-based position and page
RowsTagged(df, n) ==
    /\ Len(df.rows) = SumRows(tables, n)
    /\ \A t \in 0..(n - 1) : \A k \in 1..tables[t + 1].nrows :
         LET row == df.rows[SumRows(tables, t) + k]
         IN /\ row[table_id] = <<t + 1>>
            /\ row[table_page] = <<tables[t + 1].page>>
            /\ row["0"] = <<t, k, 0>>

\* C1: in a run the stages are invoked in the order Fetcher, Detector,
\* Aggregator, Writer, each at most once and only after the previous one
\* succeeded; a failed download leaves the Fetcher the only stage invoked;
\* after a failure no further stage is invoked in the run; and a run that
\* has ended stays ended (the only step left starts the next run).
C1_StagesInOrder ==
    /\ [](/\ Len(invoked) <= Len(Stages)
          /\ \A n \in DOMAIN invoked : invoked[n] = Stages[n]
          /\ "Detector" \in InvokedSet => downloaded_pdf = "save_path"
          /\ "Aggregator" \in InvokedSet => fault # "detector"
          /\ "Writer" \in InvokedSet => i = Len(tables)
          /\ downloaded_pdf = "None" => invoked = <<"Fetcher">>)
    /\ [][/\ (fault # "none" /\ run' = run) => invoked' = invoked
          /\ Terminal => run' = run + 1]_vars

C1_Witness ==
    /\ run = 2 /\ pc = "done" /\ downloaded_pdf = "None"
    /\ csvFile.status = "complete"

\* C2: when camelot.read_pdf raises, the run ends FAILED, the Writer is not
\* invoked and the output file is what it was when the run started.
C2_DetectorFailure ==
    fault = "detector" =>
        /\ pc \in {"main_summary", "done"}
        /\ csv_file = "None"
        /\ pc = "done" => Outcome = "FAILED"
        /\ "Writer" \notin InvokedSet
        /\ csvFile = csvAtStart

C2_Witness ==
    /\ fault = "detector" /\ pc = "done" /\ run = 2
    /\ csvFile.status = "complete"

\* C3: whenever a run ends FAILED, no file exists at the output path.
C3_NoArtifactOnFailure == Outcome = "FAILED" => csvFile.status = "absent"

\* C4 as stated: for a non-empty sequence of N tables the combined rows are
\* the tables' rows, tagged with table_id = position + 1 and the table's
\* page, and the table_id values are exactly 1..N.
C4_IdsAreOneToN ==
    (pc = "ex_loop" /\ i = Len(tables) /\ Len(tables) >= 1) =>
        /\ RowsTagged(all_tables_df, Len(tables))
        /\ TableIds(all_tables_df) = 1..Len(tables)

\* C4, amended: after every iteration the combined rows are the rows of the
\* tables processed so far, in order, each tagged with table_id = position
\* + 1 and its table's page; the table_id values that occur are those of
\* the tables with at least one row, in non-decreasing order.
C4_RowsTagged ==
    pc = "ex_loop" =>
        /\ RowsTagged(all_tables_df, i)
        /\ TableIds(all_tables_df) = {t \in 1..i : tables[t].nrows > 0}
        /\ \A m, n \in DOMAIN all_tables_df.rows :
             m <= n => all_tables_df.rows[m][table_id][1] <= all_tables_df.rows[n][table_id][1]

C4_Witness ==
    /\ pc = "ex_loop" /\ i = Len(tables) /\ Len(tables) = 2
    /\ tables[1].nrows = 0 /\ tables[2].nrows = 2
    /\ Len(all_tables_df.rows) = 2

\* C5: when camelot.read_pdf returns no table and nothing fails, the run
\* does not end FAILED, the output file holds only the header table_id,
\* table_page, and main reports an empty result, distinct from success.
C5_EmptyResult ==
    (pc = "done" /\ "Aggregator" \in InvokedSet /\ Len(tables) = 0 /\ fault = "none") =>
        /\ Outcome # "FAILED"
        /\ csvFile = [status |-> "complete", cols |-> <<table_id, table_page>>, rows |-> <<>>]
        /\ report = "empty_result"

\* C6: after every iteration of the loop the columns of the combined
\* DataFrame are the union of the columns of the tables processed so far,
\* plus table_id and table_page, and its rows are the tables' rows in order.
C6_ColumnUnion ==
    pc = "ex_loop" =>
        /\ ColSet(all_tables_df.cols) =
             UNION {ColSet(Tagged(t, tables[t + 1]).cols) : t \in 0..(i - 1)}
        /\ RowsTagged(all_tables_df, i)

\* C7: when the response has a non-success status, download_pdf returns None
\* through the requests handler, the file at save_path is what it was when
\* the run started, camelot is never called and the run ends FAILED.
C7_BadStatus ==
    response.status = "bad" =>
        /\ pc \in {"main_check", "done"}
        /\ downloaded_pdf = "None"
        /\ dlMsg = "request"
        /\ pdfFile = pdfAtStart
        /\ "Detector" \notin InvokedSet
        /\ pc = "done" => (Outcome = "FAILED" /\ report = "download_failed")

C7_Witness ==
    /\ response.status = "bad" /\ pc = "done" /\ run = 2
    /\ pdfFile.exists /\ Len(pdfFile.data) = 1

\* download_pdf has gone past the content-type check of lines 57-59
PastTypeCheck == response.status = "ok" /\ pc # "dl_check_type"

\* download_pdf returned None only because an environment call raised
NoneOnlyOnFault ==
    /\ downloaded_pdf = "None" => fault \in DownloadFaults
    /\ (downloaded_pdf # "unset" /\ fault \notin DownloadFaults) =>
         /\ downloaded_pdf = "save_path"
         /\ pdfFile = [exists |-> TRUE, data |-> Written(response.body, Len(response.body))]

\* C8 as stated: a successful response whose content type is not PDF is
\* still saved and its path returned, and a warning is printed.
C8_AlwaysWarns ==
    (PastTypeCheck /\ ~IsPdfType(response.ctype)) => (NoneOnlyOnFault /\ warned)

\* C8, amended: a successful response whose content type is not PDF is
\* still saved and its path returned (download_pdf returns None only when a
\* network or file call raises); the warning is printed exactly when the
\* URL does not end in .pdf either.
C8_WarnsUnlessUrlIsPdf ==
    (PastTypeCheck /\ ~IsPdfType(response.ctype)) =>
        (NoneOnlyOnFault /\ (warned <=> ~urlIsPdf))

C8_Witness ==
    /\ response.status = "ok" /\ response.ctype = "text/html" /\ urlIsPdf
    /\ downloaded_pdf = "save_path" /\ ~warned /\ Len(pdfFile.data) = 2
    /\ pc = "done"

\* C9: every failure of a stage ends the run in FAILED with main's report;
\* no run ends with an exception leaving main.
C9_FailuresReported ==
    (Terminal /\ fault # "none") => (Outcome = "FAILED" /\ report # "none")

\* C10: download_pdf returns save_path only after a successful status and
\* with every chunk written; any failing call makes it return None to main
\* (nothing is raised); and what was written before a failure of the
\* streaming loop is still in the file afterwards.
C10_DownloadResult ==
    /\ downloaded_pdf = "save_path" =>
         /\ response.status = "ok"
         /\ chunkIdx = Len(response.body)
         /\ pdfFile = [exists |-> TRUE, data |-> Written(response.body, Len(response.body))]
    /\ fault \in DownloadFaults =>
         /\ downloaded_pdf = "None"
         /\ pc \in {"main_check", "done"}
    /\ fault \in {"stream", "write"} =>
         pdfFile = [exists |-> TRUE, data |-> Written(response.body, chunkIdx)]
    /\ fault \in {"makedirs", "get", "status", "open"} => pdfFile = pdfAtStart

C10_Witness ==
    /\ fault = "stream" /\ pc = "done" /\ chunkIdx = 1
    /\ Len(pdfFile.data) = 1 /\ Len(response.body) = 2
====
